---- MODULE Spec2Model ----
(***************************************************************************)
(* SkydioClient (src/skydio_client.py): a synchronous HTTP client.  The    *)
(* state is the client object's fields plus the position of the one call   *)
(* in progress; every step is one request/response exchange with the       *)
(* vehicle together with the handler code that runs up to the next         *)
(* request or to the end of the call.  The vehicle's answer to each        *)
(* request is chosen nondeterministically among transport failures, HTTP   *)
(* errors, malformed bodies and well-formed replies.                       *)
(***************************************************************************)
EXTENDS Integers, Sequences, FiniteSets, TLC

\* ------------------------------------------------------------------ bounds
\* Requests a run may send in total (the code itself has no cap).
MaxReqs == 7
\* Longest byte string handed to send_custom_comms.
MaxBytes == 3

\* ---------------------------------------------------------- Python values
\* Python's None, for the optional string fields.
PyNone == "<None>"
\* A key left out of a generated dict.
Missing == "<missing>"

\* Truth value of an optional string: None and '' are false.
Truthy(v) == v # PyNone /\ v # ""

\* dict.get(k): the value, or None when the key is absent.
Get(d, k) == IF k \in DOMAIN d THEN d[k] ELSE PyNone

\* JSON values that may sit under the envelope's `data` key.
JNull == [t |-> "null"]
JDict(d) == [t |-> "dict", d |-> d]

\* The dict with the given keys; a key whose value is Missing is left out.
Dict2(k1, v1, k2, v2) ==
  [k \in ({x \in {k1} : v1 # Missing} \cup {x \in {k2} : v2 # Missing})
     |-> IF k = k1 THEN v1 ELSE v2]

EmptyDict == [k \in {} |-> PyNone]

\* --------------------------------------------------------------- base64
\* A base64 text is a sequence over 0..64: 0..63 are the alphabet's digits
\* in order, 64 is the pad character '='.
Pad == 64

\* A bug: the encoder leaves out the pad characters.
RECURSIVE b64encodeUnpadded(_)
b64encodeUnpadded(bs) ==
  IF Len(bs) = 0 THEN <<>>
  ELSE IF Len(bs) = 1 THEN
    << bs[1] \div 4, (bs[1] % 4) * 16 >>
  ELSE IF Len(bs) = 2 THEN
    << bs[1] \div 4, (bs[1] % 4) * 16 + bs[2] \div 16, (bs[2] % 16) * 4 >>
  ELSE
    << bs[1] \div 4, (bs[1] % 4) * 16 + bs[2] \div 16,
       (bs[2] % 16) * 4 + bs[3] \div 64, bs[3] % 64 >>
    \o b64encodeUnpadded(SubSeq(bs, 4, Len(bs)))

\* base64.b64encode (line 192).
RECURSIVE b64encode(_)
b64encode(bs) ==
  IF Len(bs) = 0 THEN <<>>
  ELSE IF Len(bs) = 1 THEN
    << bs[1] \div 4, (bs[1] % 4) * 16, Pad, Pad >>
  ELSE IF Len(bs) = 2 THEN
    << bs[1] \div 4, (bs[1] % 4) * 16 + bs[2] \div 16, (bs[2] % 16) * 4, Pad >>
  ELSE
    << bs[1] \div 4, (bs[1] % 4) * 16 + bs[2] \div 16,
       (bs[2] % 16) * 4 + bs[3] \div 64, bs[3] % 64 >>
    \o b64encode(SubSeq(bs, 4, Len(bs)))

\* 2^n for the few shifts the decoder needs.
Pow2(n) == CASE n = 0 -> 1 [] n = 2 -> 4 [] n = 4 -> 16 [] n = 6 -> 64
             [] OTHER -> 256

\* binascii.a2b_base64, the decoder behind base64.b64decode: digits are
\* accumulated six bits at a time; a pad before the third digit of a quad,
\* or a lone pad after the second digit, is skipped; any other pad ends the
\* input; bits left over at the end are "Incorrect padding".
RECURSIVE a2b_base64(_, _, _, _, _, _)
a2b_base64(s, i, quad_pos, leftbits, leftchar, out) ==
  IF i > Len(s) THEN [ok |-> leftbits = 0, bytes |-> out]
  ELSE IF s[i] = Pad THEN
    IF quad_pos < 2 \/ (quad_pos = 2 /\ ~(i < Len(s) /\ s[i + 1] = Pad))
    THEN a2b_base64(s, i + 1, quad_pos, leftbits, leftchar, out)
    ELSE [ok |-> TRUE, bytes |-> out]
  ELSE
    LET lc == leftchar * 64 + s[i]
        lb == leftbits + 6
    IN IF lb >= 8
       THEN a2b_base64(s, i + 1, (quad_pos + 1) % 4, lb - 8,
                       lc % Pow2(lb - 8), Append(out, (lc \div Pow2(lb - 8)) % 256))
       ELSE a2b_base64(s, i + 1, (quad_pos + 1) % 4, lb, lc, out)

\* base64.b64decode(text): the bytes, or TypeError on incorrect padding.
b64decode(text) == a2b_base64(text, 1, 0, 0, 0, <<>>)


\* -------------------------------------------------------- input domains
Bytes == {77, 255}
ByteStrings == UNION {[1..n -> Bytes] : n \in 0..MaxBytes}
SkillKeys == {"samples.com_link.ComLink"}
ClientIds == {"uuid-a", "uuid-b"}
AccessLevels == {Missing, "PHONE", "PILOT"}
AccessTokens == {Missing, "", "tok1"}
SessionIds == {Missing, "s1", "s2"}
FlightPhases == {Missing, "", "READY_FOR_GROUND_TAKEOFF", "FLYING", "LANDING"}
\* Contents of the token file, as characters.
TokenFileText == <<" ", "k", "\n">>

\* ------------------------------------------------------ server responses
\* What urlopen meets: no connection, or a final status code with a body
\* that may be unreadable, not JSON, a JSON list, or a JSON object.
Response(conn, code, readable, body) ==
  [conn |-> conn, code |-> code, readable |-> readable, body |-> body]

Garbage == [t |-> "garbage"]
JList == [t |-> "list"]
Envelope(payload) == JDict([data |-> payload])
ErrorBody == JDict([error |-> "denied"])

OkResponse(payload) == Response(TRUE, 200, TRUE, Envelope(payload))

FailResponses ==
  { Response(FALSE, 0, FALSE, Garbage),
    Response(TRUE, 404, TRUE, ErrorBody),
    Response(TRUE, 500, TRUE, Envelope(JDict(EmptyDict))),
    Response(TRUE, 200, FALSE, Envelope(JDict(EmptyDict))),
    Response(TRUE, 200, TRUE, Garbage),
    Response(TRUE, 200, TRUE, ErrorBody) }

AuthPayloads ==
  {JNull} \cup {JDict(Dict2("accessLevel", l, "accessToken", t)) :
                  l \in AccessLevels, t \in AccessTokens}
StatusPayloads ==
  {JNull} \cup {JDict(Dict2("sessionId", s, "flightPhase", p)) :
                  s \in SessionIds, p \in FlightPhases}
PlainPayloads == {JDict(EmptyDict)}
\* Reply texts of the custom_comms endpoint to a request carrying `text`:
\* the echo, encodings of other byte strings, and texts no encoder produces.
ReplyTexts(text) ==
  {text, b64encode(<<>>), b64encode(<<77>>), b64encode(<<255, 77>>),
   <<19>>, <<19, 16, Pad>>}
CommsPayloads(text) ==
  {JNull, JDict(EmptyDict), JDict([id |-> <<7>>])}
  \cup {JDict([data |-> t, id |-> <<7>>]) : t \in ReplyTexts(text)}

Responses(payloads) == FailResponses \cup {OkResponse(p) : p \in payloads}

\* ---------------------------------------------------------- request_json
NoBody == [t |-> "none"]

Returned(v) == [kind |-> "return", exc |-> "", val |-> v]
Raised(e) == [kind |-> "raise", exc |-> e, val |-> JNull]

\* A bug: the header is attached whenever the token is not None.
BuildRequestTokenNotNone(burl, token, endpoint, json_data) ==
  [url |-> <<burl, "api">> \o endpoint,
   endpoint |-> endpoint,
   method |-> IF json_data # NoBody THEN "POST" ELSE "GET",
   headers |->
     [h \in ({"Accept"}
             \cup {x \in {"Authorization"} : token # PyNone}
             \cup {x \in {"Content-Type"} : json_data # NoBody})
        |-> IF h = "Authorization" THEN <<"Bearer", token>>
            ELSE <<"application/json">>],
   body |-> json_data]

\* Lines 152-160: the url, the headers and the method of the request.
BuildRequest(burl, token, endpoint, json_data) ==
  [url |-> <<burl, "api">> \o endpoint,
   endpoint |-> endpoint,
   method |-> IF json_data # NoBody THEN "POST" ELSE "GET",
   headers |->
     [h \in ({"Accept"}
             \cup {x \in {"Authorization"} : Truthy(token)}
             \cup {x \in {"Content-Type"} : json_data # NoBody})
        |-> IF h = "Authorization" THEN <<"Bearer", token>>
            ELSE <<"application/json">>],
   body |-> json_data]

\* A bug: the envelope is read with .get, so a body without `data` returns None.
ParseResponseLenient(resp) ==
  IF ~resp.conn THEN Raised("URLError")
  ELSE IF resp.code < 200 \/ resp.code > 299 THEN Raised("HTTPError")
  ELSE IF ~resp.readable THEN Raised("IOError")
  ELSE IF resp.body.t = "garbage" THEN Raised("ValueError")
  ELSE IF resp.body.t = "list" THEN Raised("AttributeError")
  ELSE IF "data" \notin DOMAIN resp.body.d THEN Returned(JNull)
  ELSE Returned(resp.body.d["data"])

\* Lines 161-176: urlopen raises on no connection and on a final status
\* outside 2xx; then the status class, the read() check, the JSON parse and
\* the `data` envelope.
ParseResponse(resp) ==
  IF ~resp.conn THEN Raised("URLError")
  ELSE IF resp.code < 200 \/ resp.code > 299 THEN Raised("HTTPError")
  ELSE IF resp.code \div 100 \in {4, 5} THEN Raised("HTTPError")
  ELSE IF ~resp.readable THEN Raised("IOError")
  ELSE IF resp.body.t = "garbage" THEN Raised("ValueError")
  ELSE IF resp.body.t = "list" THEN Raised("AttributeError")
  ELSE IF "data" \notin DOMAIN resp.body.d THEN Raised("RuntimeError")
  ELSE Returned(resp.body.d["data"])

request_json(burl, token, endpoint, json_data, resp) ==
  [req |-> BuildRequest(burl, token, endpoint, json_data),
   out |-> ParseResponse(resp)]

\* ------------------------------------------------- handlers, as functions
Exited == [kind |-> "exit", exc |-> "", val |-> JNull]

NoRequest == [url |-> <<>>, endpoint |-> <<>>, method |-> "",
              headers |-> EmptyDict, body |-> NoBody]
NoResponse == Response(FALSE, -1, FALSE, Garbage)
NoOutcome == [kind |-> "none", exc |-> "", val |-> JNull]

\* str.strip() of the token file's text.
IsSpace(c) == c \in {" ", "\n", "\t"}
RECURSIVE LStrip(_)
LStrip(cs) == IF cs # <<>> /\ IsSpace(Head(cs)) THEN LStrip(Tail(cs)) ELSE cs
RECURSIVE RStrip(_)
RStrip(cs) ==
  IF cs # <<>> /\ IsSpace(cs[Len(cs)]) THEN RStrip(SubSeq(cs, 1, Len(cs) - 1))
  ELSE cs
Strip(cs) == RStrip(LStrip(cs))

\* A bug: the exit is taken only when the reply names no level at all.
PilotRefusedOnlyIfAbsent(pilot, level) == pilot /\ level = PyNone

\* Line 131: pilot access was asked for and not granted.
PilotRefusedBy(pilot, level) == pilot /\ level # "PILOT"

\* A bug: the existence of the token file is never tested.
TokenFileNeverMissing(token_file, exists) == FALSE

\* Lines 120-121: a token file was asked for and is not there.
TokenFileMissing(token_file, exists) == Truthy(token_file) /\ ~exists

\* A bug: the access level is stored in place of the token.
StoredTokenFromLevel(response) == Get(response, "accessLevel")

\* Line 134: the access token the constructor stores.
StoredToken(response) == Get(response, "accessToken")

\* _authenticate (lines 112-134).  sentReq tells whether the request went
\* out; access_level and access_token are the fields as the call leaves them.
authenticate(burl, token0, pilot, token_file, exists, client_id, resp) ==
  LET base == [client_id |-> client_id,
               requested_level |-> IF pilot THEN 8 ELSE 4,
               commandeer |-> TRUE]
      request == IF Truthy(token_file)
                 THEN [k \in DOMAIN base \cup {"credentials"} |->
                         IF k = "credentials" THEN Strip(TokenFileText)
                         ELSE base[k]]
                 ELSE base
      x == request_json(burl, token0, <<"authentication">>, JDict(request), resp)
      level == IF x.out.val.t = "dict" THEN Get(x.out.val.d, "accessLevel")
               ELSE PyNone
      token == IF x.out.val.t = "dict" THEN StoredToken(x.out.val.d)
               ELSE PyNone
  IN IF TokenFileMissing(token_file, exists)
     THEN [sentReq |-> FALSE, req |-> NoRequest, out |-> NoOutcome,
           res |-> Exited, access_level |-> PyNone, access_token |-> PyNone]
     ELSE IF x.out.kind = "raise"
     THEN [sentReq |-> TRUE, req |-> x.req, out |-> x.out,
           res |-> x.out, access_level |-> PyNone, access_token |-> PyNone]
     ELSE IF x.out.val.t = "null"
     THEN [sentReq |-> TRUE, req |-> x.req, out |-> x.out,
           res |-> Raised("AttributeError"),
           access_level |-> PyNone, access_token |-> PyNone]
     ELSE IF PilotRefusedBy(pilot, level)
     THEN [sentReq |-> TRUE, req |-> x.req, out |-> x.out,
           res |-> Exited, access_level |-> level, access_token |-> PyNone]
     ELSE [sentReq |-> TRUE, req |-> x.req, out |-> x.out,
           res |-> Returned(JNull), access_level |-> level, access_token |-> token]

\* A bug: the session id is stored only while none is held.
StoredSessionOnce(sid, response) ==
  IF Truthy(sid) THEN sid ELSE response["sessionId"]

\* The session id a successful status call stores (line 221).
StoredSession(sid, response) == response["sessionId"]

\* A bug: the session id is never sent.
StatusArgsNoSession(sid) ==
  [k \in {"wouldAcceptPilot", "inForeground", "mediaMode", "takeoffType"} |->
     CASE k = "wouldAcceptPilot" -> <<TRUE>>
       [] k = "inForeground" -> <<TRUE>>
       [] k = "mediaMode" -> <<"FLIGHT_CONTROL">>
       [] OTHER -> <<"GROUND_TAKEOFF">>]

\* update_pilot_status (lines 210-222): the status request, the session id
\* the call leaves in the client, and the call's result.
StatusArgs(sid) ==
  [k \in ({"wouldAcceptPilot", "inForeground", "mediaMode", "takeoffType"}
          \cup {x \in {"sessionId"} : Truthy(sid)}) |->
     CASE k = "wouldAcceptPilot" -> <<TRUE>>
       [] k = "inForeground" -> <<TRUE>>
       [] k = "mediaMode" -> <<"FLIGHT_CONTROL">>
       [] k = "takeoffType" -> <<"GROUND_TAKEOFF">>
       [] OTHER -> <<sid>>]

\* A bug: a failed status request is swallowed and an empty status returned.
update_pilot_status_swallowing(burl, token, sid, resp) ==
  LET x == request_json(burl, token, <<"status">>, JDict(StatusArgs(sid)), resp)
  IN IF x.out.kind = "raise"
     THEN [req |-> x.req, out |-> x.out, res |-> Returned(JDict(EmptyDict)),
           session_id |-> sid]
     ELSE IF x.out.val.t = "null"
     THEN [req |-> x.req, out |-> x.out, res |-> Raised("TypeError"),
           session_id |-> sid]
     ELSE IF "sessionId" \notin DOMAIN x.out.val.d
     THEN [req |-> x.req, out |-> x.out, res |-> Raised("KeyError"),
           session_id |-> sid]
     ELSE [req |-> x.req, out |-> x.out, res |-> x.out,
           session_id |-> StoredSession(sid, x.out.val.d)]

update_pilot_status(burl, token, sid, resp) ==
  LET x == request_json(burl, token, <<"status">>, JDict(StatusArgs(sid)), resp)
  IN IF x.out.kind = "raise"
     THEN [req |-> x.req, out |-> x.out, res |-> x.out, session_id |-> sid]
     ELSE IF x.out.val.t = "null"
     THEN [req |-> x.req, out |-> x.out, res |-> Raised("TypeError"),
           session_id |-> sid]
     ELSE IF "sessionId" \notin DOMAIN x.out.val.d
     THEN [req |-> x.req, out |-> x.out, res |-> Raised("KeyError"),
           session_id |-> sid]
     ELSE [req |-> x.req, out |-> x.out, res |-> x.out,
           session_id |-> StoredSession(sid, x.out.val.d)]

\* The flight phase a status call's result carries: response.get('flightPhase').
PhaseOf(res) == Get(res.val.d, "flightPhase")

\* send_custom_comms (lines 178-208).
send_custom_comms(burl, token, skill_key, data, no_response, resp) ==
  LET rpc_request == [data |-> b64encode(data),
                      skill_key |-> <<skill_key>>,
                      no_response |-> <<no_response>>]
      x == request_json(burl, token, <<"custom_comms">>, JDict(rpc_request), resp)
      r == x.out.val
      dec == b64decode(r.d["data"])
  IN [req |-> x.req, out |-> x.out,
      res |-> IF x.out.kind = "raise" THEN Returned(JNull)
              ELSE IF r.t = "null" THEN Returned(r)
              ELSE IF DOMAIN r.d = {} THEN Returned(r)
              ELSE IF "data" \notin DOMAIN r.d THEN Returned(r)
              ELSE IF dec.ok
                   THEN Returned(JDict([r.d EXCEPT !["data"] = dec.bytes]))
                   ELSE Raised("TypeError")]

\* A bug: any granted level passes the gate.
IsPilotAnyLevel(level) == level # PyNone

\* The pilot gate of takeoff, land and set_skill (lines 226, 248, 264).
IsPilot(level) == level = "PILOT"

\* str.format of a fault id into the endpoint.
FmtInt(n) == CASE n = 2 -> "2" [] n = 3 -> "3" [] OTHER -> "?"

\* disable_faults' table (lines 273-277) and the orders in which a dict of
\* two keys may be iterated.
Faults == [LOST_PHONE_COMMS_SHORT |-> 2, LOST_PHONE_COMMS_LONG |-> 3]
FaultOrders == { <<Faults[a], Faults[b]>> :
                   a \in DOMAIN Faults, b \in DOMAIN Faults } \
               { <<Faults[a], Faults[a]>> : a \in DOMAIN Faults }

FaultOverride == [override_on |-> TRUE, fault_active |-> FALSE]

\* What the per-call log keeps of one exchange: the endpoint, the command
\* sent if any, whether the code that made the request went on normally, and
\* the flight phase a status call read from the reply.
Entry(req, out) ==
  [ep |-> req.endpoint,
   cmd |-> IF req.body.t = "dict" /\ "command" \in DOMAIN req.body.d
           THEN req.body.d["command"] ELSE PyNone,
   ok |-> out.kind = "return",
   phase |-> IF out.kind = "return" /\ req.endpoint = <<"status">>
                /\ out.val.t = "dict"
             THEN Get(out.val.d, "flightPhase") ELSE PyNone]

\* ------------------------------------------------------------------ state
VARIABLES
  baseurl, access_token, session_id, access_level,  \* the client's fields
  op,        \* the call in progress, or the last one made
  pc,        \* its position: "new", a label inside the call, "done" (the
             \* call has ended), "idle" (the caller has taken the result),
             \* "failed" (the constructor raised), "exited" (sys.exit)
  args,      \* that call's arguments
  phase,     \* land's local variable
  faults,    \* disable_faults: the fault ids still to be overridden
  ret,       \* how the last finished call ended
  sent,      \* the exchanges of the current call, in order
  lastReq, lastResp, lastOut, \* the latest exchange: request, response,
                              \* request_json's outcome
  main       \* the example driver: where main() stands and the flags it has
             \* read ("library" when the client is used without main)

vars == <<baseurl, access_token, session_id, access_level, op, pc, args,
          phase, faults, ret, sent, lastReq, lastResp, lastOut, main>>

fields == <<baseurl, access_token, session_id, access_level>>

\* All that belongs to the call in progress.
call == <<op, pc, args, phase, faults, ret, sent, lastReq, lastResp, lastOut>>

BaseUrl == "http://192.168.10.1"

\* A command-line flag as main has read it; "unset" before it is read.
Flag(b) == IF b THEN "yes" ELSE "no"

\* The client is used as a library: no driver.
NoMain == [at |-> "library", pilot |-> "unset", takeoff |-> "unset",
           loop |-> "unset", land |-> "unset", image |-> "unset"]

\* main() has parsed its arguments and is about to create the client.
MainStart == [NoMain EXCEPT !.at = "client"]

\* No client exists yet.
NoClient ==
  /\ baseurl = PyNone
  /\ access_token = PyNone
  /\ session_id = PyNone
  /\ access_level = PyNone
  /\ op = "none"
  /\ pc = "new"
  /\ args = EmptyDict
  /\ phase = PyNone
  /\ faults = <<>>
  /\ ret = NoOutcome
  /\ sent = <<>>
  /\ lastReq = NoRequest
  /\ lastResp = NoResponse
  /\ lastOut = NoOutcome

Init == NoClient /\ main = NoMain

\* One exchange goes on record: out is request_json's outcome, res that of
\* the method that called it.
Exchange(req, resp, out, res) ==
  /\ lastReq' = req
  /\ lastResp' = resp
  /\ lastOut' = out
  /\ sent' = Append(sent, Entry(req, res))

\* A call starts: its log is empty.
Begin(name, a) ==
  /\ pc = "idle"
  /\ op' = name
  /\ args' = a

\* The first exchange of a call that makes just one.
Single(req, resp, out, res) ==
  /\ lastReq' = req
  /\ lastResp' = resp
  /\ lastOut' = out
  /\ sent' = <<Entry(req, res)>>

\* __init__ (lines 105-110) with _authenticate.
Construct ==
  /\ pc = "new"
  /\ \E pilot \in BOOLEAN, token_file \in {PyNone, "token.txt"},
        exists \in BOOLEAN, cid \in ClientIds, resp \in Responses(AuthPayloads) :
       LET a == authenticate(BaseUrl, PyNone, pilot, token_file, exists, cid, resp)
       IN /\ op' = "init"
          /\ args' = [pilot |-> pilot, token_file |-> token_file, exists |-> exists]
          /\ baseurl' = BaseUrl
          /\ session_id' = PyNone
          /\ access_level' = a.access_level
          /\ access_token' = a.access_token
          /\ ret' = a.res
          /\ pc' = CASE a.res.kind = "return" -> "done"
                     [] a.res.kind = "raise" -> "failed"
                     [] OTHER -> "exited"
          /\ lastReq' = a.req
          /\ lastResp' = IF a.sentReq THEN resp ELSE NoResponse
          /\ lastOut' = a.out
          /\ sent' = IF a.sentReq THEN <<Entry(a.req, a.res)>> ELSE <<>>
          /\ UNCHANGED <<phase, faults>>

\* request_json called directly, as save_image does (line 41).
RequestJson ==
  /\ Begin("request_json", [endpoint |-> <<"channel", "SUBJECT_CAMERA_RIG_NATIVE">>])
  /\ \E resp \in Responses(PlainPayloads) :
       LET x == request_json(baseurl, access_token,
                             <<"channel", "SUBJECT_CAMERA_RIG_NATIVE">>, NoBody, resp)
       IN /\ Single(x.req, resp, x.out, x.out)
          /\ ret' = x.out
  /\ pc' = "done"
  /\ UNCHANGED <<fields, phase, faults>>

\* A bug: a failed send forgets the access token.
SendCustomCommsResetsToken ==
  /\ pc = "idle"
  /\ \E key \in SkillKeys, data \in ByteStrings, no_response \in BOOLEAN :
      \E resp \in Responses(CommsPayloads(b64encode(data))) :
       LET c == send_custom_comms(baseurl, access_token, key, data,
                                  no_response, resp)
       IN /\ Begin("send_custom_comms",
                   [skill_key |-> key, data |-> data, no_response |-> no_response])
          /\ Single(c.req, resp, c.out, c.out)
          /\ ret' = c.res
          /\ access_token' = IF c.out.kind = "raise" THEN PyNone
                             ELSE access_token
  /\ pc' = "done"
  /\ UNCHANGED <<baseurl, session_id, access_level, phase, faults>>

\* send_custom_comms.
SendCustomComms ==
  /\ pc = "idle"
  /\ \E key \in SkillKeys, data \in ByteStrings, no_response \in BOOLEAN :
      \E resp \in Responses(CommsPayloads(b64encode(data))) :
       LET c == send_custom_comms(baseurl, access_token, key, data,
                                  no_response, resp)
       IN /\ Begin("send_custom_comms",
                   [skill_key |-> key, data |-> data, no_response |-> no_response])
          /\ Single(c.req, resp, c.out, c.out)
          /\ ret' = c.res
  /\ pc' = "done"
  /\ UNCHANGED <<fields, phase, faults>>

\* update_pilot_status called on its own.
UpdatePilotStatus ==
  /\ Begin("update_pilot_status", EmptyDict)
  /\ \E resp \in Responses(StatusPayloads) :
       LET u == update_pilot_status(baseurl, access_token, session_id, resp)
       IN /\ Single(u.req, resp, u.out, u.res)
          /\ session_id' = u.session_id
          /\ ret' = u.res
  /\ pc' = "done"
  /\ UNCHANGED <<baseurl, access_token, access_level, phase, faults>>

\* set_skill (lines 262-269).
SetSkill ==
  /\ pc = "idle"
  /\ \E key \in SkillKeys, resp \in Responses(PlainPayloads) :
       LET x == request_json(baseurl, access_token, <<"set_skill", key>>,
                             JDict([args |-> EmptyDict]), resp)
       IN /\ Begin("set_skill", [skill_key |-> key])
          /\ IF ~IsPilot(access_level)
             THEN /\ sent' = <<>>
                  /\ ret' = Returned(JNull)
                  /\ UNCHANGED <<lastReq, lastResp, lastOut>>
             ELSE /\ Single(x.req, resp, x.out, x.out)
                  /\ ret' = IF x.out.kind = "raise" THEN x.out
                            ELSE Returned(JNull)
  /\ pc' = "done"
  /\ UNCHANGED <<fields, phase, faults>>

\* The call in progress may send another request.
Running(name, label) ==
  /\ op = name
  /\ pc = label
  /\ Len(sent) < MaxReqs

\* The call in progress ends.
Finish(res) ==
  /\ pc' = "done"
  /\ ret' = res

\* A bug: disable_faults is gated on pilot access like takeoff and land.
DisableFaultsGated ==
  /\ Begin("disable_faults", EmptyDict)
  /\ sent' = <<>>
  /\ IF ~IsPilot(access_level)
     THEN /\ Finish(Returned(JNull))
          /\ UNCHANGED faults
     ELSE /\ \E order \in FaultOrders : faults' = order
          /\ pc' = "faults"
          /\ UNCHANGED ret
  /\ UNCHANGED <<fields, phase, lastReq, lastResp, lastOut>>

\* disable_faults called on its own (lines 271-280): the iteration order of
\* the table is the dict's.
DisableFaults ==
  /\ Begin("disable_faults", EmptyDict)
  /\ \E order \in FaultOrders : faults' = order
  /\ pc' = "faults"
  /\ sent' = <<>>
  /\ UNCHANGED <<fields, phase, ret, lastReq, lastResp, lastOut>>

\* One turn of disable_faults' loop, in disable_faults or inside takeoff.
FaultStep ==
  /\ op \in {"disable_faults", "takeoff"}
  /\ pc = "faults"
  /\ Len(sent) < MaxReqs
  /\ \E resp \in Responses(PlainPayloads) :
       LET x == request_json(baseurl, access_token,
                             <<"set_fault_override", FmtInt(Head(faults))>>,
                             JDict(FaultOverride), resp)
       IN /\ Exchange(x.req, resp, x.out, x.out)
          /\ IF x.out.kind = "raise"
             THEN /\ Finish(x.out)
                  /\ UNCHANGED faults
             ELSE /\ faults' = Tail(faults)
                  /\ IF Tail(faults) # <<>>
                     THEN UNCHANGED <<pc, ret>>
                     ELSE IF op = "takeoff"
                     THEN /\ pc' = "poll"
                          /\ UNCHANGED ret
                     ELSE Finish(Returned(JNull))
  /\ UNCHANGED <<fields, op, args, phase>>

\* takeoff (lines 224-244): the pilot gate.
Takeoff ==
  /\ Begin("takeoff", EmptyDict)
  /\ sent' = <<>>
  /\ IF ~IsPilot(access_level)
     THEN Finish(Returned(JNull))
     ELSE /\ pc' = "status0"
          /\ UNCHANGED ret
  /\ UNCHANGED <<fields, phase, faults, lastReq, lastResp, lastOut>>

\* takeoff, line 230: the first status call; then disable_faults begins.
TakeoffStatus ==
  /\ Running("takeoff", "status0")
  /\ \E resp \in Responses(StatusPayloads), order \in FaultOrders :
       LET u == update_pilot_status(baseurl, access_token, session_id, resp)
       IN /\ Exchange(u.req, resp, u.out, u.res)
          /\ session_id' = u.session_id
          /\ IF u.res.kind = "raise"
             THEN /\ Finish(u.res)
                  /\ UNCHANGED faults
             ELSE /\ pc' = "faults"
                  /\ faults' = order
                  /\ UNCHANGED ret
  /\ UNCHANGED <<baseurl, access_token, access_level, op, args, phase>>

\* A bug: the READY_FOR_GROUND_TAKEOFF branch is lost.
AfterTakeoffPollNoCommand(p) ==
  IF ~Truthy(p) THEN "poll"
  ELSE IF p = "FLYING" THEN "done"
  ELSE "poll"

\* A bug: any phase that is not READY_FOR_GROUND_TAKEOFF ends the loop.
AfterTakeoffPollStopOnOther(p) ==
  IF ~Truthy(p) THEN "poll"
  ELSE IF p = "READY_FOR_GROUND_TAKEOFF" THEN "cmd"
  ELSE "done"

\* A bug: every phase that is not FLYING sends the command.
AfterTakeoffPollCommandOnOther(p) ==
  IF ~Truthy(p) THEN "poll"
  ELSE IF p = "FLYING" THEN "done"
  ELSE "cmd"

\* A bug: a status without a phase sends the command.
AfterTakeoffPollCommandOnMissing(p) ==
  IF ~Truthy(p) THEN "cmd"
  ELSE IF p = "READY_FOR_GROUND_TAKEOFF" THEN "cmd"
  ELSE IF p = "FLYING" THEN "done"
  ELSE "poll"

\* The label takeoff's loop goes to after a poll reported phase p
\* (lines 236-244).
AfterTakeoffPoll(p) ==
  IF ~Truthy(p) THEN "poll"
  ELSE IF p = "READY_FOR_GROUND_TAKEOFF" THEN "cmd"
  ELSE IF p = "FLYING" THEN "done"
  ELSE "poll"

\* takeoff, lines 234-244: one status poll of the loop.  (The one-second
\* sleep before it takes time and changes nothing.)
TakeoffPoll ==
  /\ Running("takeoff", "poll")
  /\ \E resp \in Responses(StatusPayloads) :
       LET u == update_pilot_status(baseurl, access_token, session_id, resp)
       IN /\ Exchange(u.req, resp, u.out, u.res)
          /\ session_id' = u.session_id
          /\ IF u.res.kind = "raise"
             THEN Finish(u.res)
             ELSE /\ pc' = AfterTakeoffPoll(PhaseOf(u.res))
                  /\ ret' = IF AfterTakeoffPoll(PhaseOf(u.res)) = "done"
                            THEN Returned(JNull) ELSE ret
  /\ UNCHANGED <<baseurl, access_token, access_level, op, args, phase, faults>>

\* takeoff, line 241: the ground_takeoff command.
TakeoffCommand ==
  /\ Running("takeoff", "cmd")
  /\ \E resp \in Responses(PlainPayloads) :
       LET x == request_json(baseurl, access_token, <<"async_command">>,
                             JDict([command |-> "ground_takeoff"]), resp)
       IN /\ Exchange(x.req, resp, x.out, x.out)
          /\ IF x.out.kind = "raise"
             THEN Finish(x.out)
             ELSE /\ pc' = "poll"
                  /\ UNCHANGED ret
  /\ UNCHANGED <<fields, op, args, phase, faults>>

\* land (lines 246-260): the pilot gate, and phase = 'FLYING'.
Land ==
  /\ Begin("land", EmptyDict)
  /\ sent' = <<>>
  /\ IF ~IsPilot(access_level)
     THEN /\ Finish(Returned(JNull))
          /\ UNCHANGED phase
     ELSE /\ phase' = "FLYING"
          /\ pc' = "cmd"
          /\ UNCHANGED ret
  /\ UNCHANGED <<fields, faults, lastReq, lastResp, lastOut>>

\* land, line 255: the land command.
LandCommand ==
  /\ Running("land", "cmd")
  /\ \E resp \in Responses(PlainPayloads) :
       LET x == request_json(baseurl, access_token, <<"async_command">>,
                             JDict([command |-> "land"]), resp)
       IN /\ Exchange(x.req, resp, x.out, x.out)
          /\ IF x.out.kind = "raise"
             THEN Finish(x.out)
             ELSE /\ pc' = "poll"
                  /\ UNCHANGED ret
  /\ UNCHANGED <<fields, op, args, phase, faults>>

\* A bug: the `if not new_phase: continue` guard is lost.
LandPhaseUnguarded(old, new_phase) == new_phase

\* land's local `phase` after a poll reported new_phase (lines 258-260).
LandPhase(old, new_phase) == IF ~Truthy(new_phase) THEN old ELSE new_phase

\* land, lines 257-260 and the loop test of line 253.
LandPoll ==
  /\ Running("land", "poll")
  /\ \E resp \in Responses(StatusPayloads) :
       LET u == update_pilot_status(baseurl, access_token, session_id, resp)
       IN /\ Exchange(u.req, resp, u.out, u.res)
          /\ session_id' = u.session_id
          /\ IF u.res.kind = "raise"
             THEN /\ Finish(u.res)
                  /\ UNCHANGED phase
             ELSE /\ phase' = LandPhase(phase, PhaseOf(u.res))
                  /\ IF LandPhase(phase, PhaseOf(u.res)) = "FLYING"
                     THEN /\ pc' = "cmd"
                          /\ UNCHANGED ret
                     ELSE Finish(Returned(JNull))
  /\ UNCHANGED <<baseurl, access_token, access_level, op, args, faults>>

\* The caller takes the result of the call that ended; the client's fields
\* are all that the next call finds (main, lines 320-360, calls in sequence).
Return ==
  /\ pc = "done"
  /\ pc' = "idle"
  /\ op' = "none"
  /\ args' = EmptyDict
  /\ phase' = PyNone
  /\ faults' = <<>>
  /\ ret' = NoOutcome
  /\ sent' = <<>>
  /\ lastReq' = NoRequest
  /\ lastResp' = NoResponse
  /\ lastOut' = NoOutcome
  /\ UNCHANGED fields

\* The client's operations, called in any order.
Next ==
  \/ Construct /\ UNCHANGED main
  \/ Return /\ UNCHANGED main
  \/ RequestJson /\ UNCHANGED main
  \/ SendCustomComms /\ UNCHANGED main
  \/ UpdatePilotStatus /\ UNCHANGED main
  \/ SetSkill /\ UNCHANGED main
  \/ DisableFaults /\ UNCHANGED main
  \/ FaultStep /\ UNCHANGED main
  \/ Takeoff /\ UNCHANGED main
  \/ TakeoffStatus /\ UNCHANGED main
  \/ TakeoffPoll /\ UNCHANGED main
  \/ TakeoffCommand /\ UNCHANGED main
  \/ Land /\ UNCHANGED main
  \/ LandCommand /\ UNCHANGED main
  \/ LandPoll /\ UNCHANGED main

Spec == Init /\ [][Next]_vars

\* ------------------------------------------------------------------ main
\* The example driver (lines 283-360).  main.at names what main does next
\* once the call in progress has returned.  argparse fixes every flag on
\* line 317; the model draws a flag where main first depends on it, which
\* gives the same runs.  --title and --forward only shape the bytes passed
\* to send_custom_comms, which are drawn from ByteStrings.

\* Line 320: the client is created.
MainClient ==
  /\ main.at = "client"
  /\ Construct
  /\ main' = [main EXCEPT !.at = "takeoff", !.pilot = Flag(args'.pilot)]

\* A call made by main returns; an exception nothing catches ends main.
MainReturn ==
  /\ main.at # "library"
  /\ Return
  /\ main' = IF ret.kind = "raise" THEN [main EXCEPT !.at = "crashed"] ELSE main

\* Lines 322-323.
MainTakeoff ==
  /\ main.at = "takeoff"
  /\ pc = "idle"
  /\ \E flag \in BOOLEAN :
       /\ main' = [main EXCEPT !.at = "set_skill", !.takeoff = Flag(flag)]
       /\ IF flag THEN Takeoff ELSE UNCHANGED <<fields, call>>

\* Lines 325-328.
MainSetSkill ==
  /\ main.at = "set_skill"
  /\ pc = "idle"
  /\ main' = [main EXCEPT !.at = "loop"]
  /\ IF main.pilot = "yes" THEN SetSkill ELSE UNCHANGED <<fields, call>>

\* Lines 331-332: the send loop is entered.
MainLoop ==
  /\ main.at = "loop"
  /\ pc = "idle"
  /\ \E loop \in BOOLEAN, land \in BOOLEAN, image \in BOOLEAN :
       main' = [main EXCEPT !.at = "send", !.loop = Flag(loop),
                            !.land = Flag(land), !.image = Flag(image)]
  /\ UNCHANGED <<fields, call>>

\* Lines 353-357: where an iteration of the loop leads (the sleep changes
\* nothing).
AfterIteration == IF main.loop = "yes" THEN "send" ELSE "land"

\* Lines 333-347: one send of the loop.
MainSend ==
  /\ main.at = "send"
  /\ SendCustomComms
  /\ main' = [main EXCEPT !.at = IF main.image = "yes" THEN "image"
                                 ELSE AfterIteration]

\* Lines 349-351 and save_image, lines 36-41: the imports, which raise when
\* cv2 or numpy is not installed, then the metadata request.
MainImage ==
  /\ main.at = "image"
  /\ pc = "idle"
  /\ \E imported \in BOOLEAN :
       IF imported
       THEN /\ RequestJson
            /\ main' = [main EXCEPT !.at = "pixels"]
       ELSE /\ main' = [main EXCEPT !.at = "crashed"]
            /\ UNCHANGED <<fields, call>>

\* save_image, lines 44-86: the metadata are read, the pixels fetched with
\* a request of its own and written with cv2; any of it may raise
\* (KeyError, URLError, cv2.error), none of it touches the client.
MainPixels ==
  /\ main.at = "pixels"
  /\ pc = "idle"
  /\ \E saved \in BOOLEAN :
       main' = [main EXCEPT !.at = IF saved THEN AfterIteration ELSE "crashed"]
  /\ UNCHANGED <<fields, call>>

\* Lines 359-360.
MainLand ==
  /\ main.at = "land"
  /\ pc = "idle"
  /\ main' = [main EXCEPT !.at = "end"]
  /\ IF main.land = "yes" THEN Land ELSE UNCHANGED <<fields, call>>

MainInit == NoClient /\ main = MainStart

MainNext ==
  \/ MainClient
  \/ MainReturn
  \/ MainTakeoff
  \/ MainSetSkill
  \/ MainLoop
  \/ MainSend
  \/ MainImage
  \/ MainPixels
  \/ MainLand
  \/ TakeoffStatus /\ UNCHANGED main
  \/ FaultStep /\ UNCHANGED main
  \/ TakeoffPoll /\ UNCHANGED main
  \/ TakeoffCommand /\ UNCHANGED main
  \/ LandCommand /\ UNCHANGED main
  \/ LandPoll /\ UNCHANGED main

\* main is one sequential thread: whatever step is next gets taken.
MainSpec == MainInit /\ [][MainNext]_vars /\ WF_vars(MainNext)

\* ================================================================ claims
\* Readings of the per-call log.
IsStatus(e) == e.ep = <<"status">>
IsCommand(e, c) == e.ep = <<"async_command">> /\ e.cmd = c
IsFault(e) == Len(e.ep) = 2 /\ e.ep[1] = "set_fault_override"
StatusLog == SelectSeq(sent, IsStatus)
IsGroundTakeoff(e) == IsCommand(e, "ground_takeoff")
NumGroundTakeoff == Len(SelectSeq(sent, IsGroundTakeoff))
Ready == "READY_FOR_GROUND_TAKEOFF"
ReturnedNone == pc = "done" /\ ret = Returned(JNull)

\* C1 (as claimed): send_custom_comms always ends by returning a value, and
\* returns None whenever its request_json call failed.
C1_NeverRaises ==
  (op = "send_custom_comms" /\ pc = "done") =>
    /\ ret.kind = "return"
    /\ (lastOut.kind = "raise" => ret.val = JNull)

\* C2: in a takeoff whose successive status requests are answered with the
\* phases READY_FOR_GROUND_TAKEOFF, READY_FOR_GROUND_TAKEOFF, FLYING, exactly
\* one ground_takeoff command is issued and the call returns with the third
\* status poll as its last request.
C2_ReadyReadyFlying ==
  (/\ op = "takeoff"
   /\ Len(StatusLog) >= 3
   /\ StatusLog[1].phase = Ready
   /\ StatusLog[2].phase = Ready
   /\ StatusLog[3].phase = "FLYING") =>
    /\ ReturnedNone
    /\ Len(StatusLog) = 3
    /\ IsStatus(sent[Len(sent)])
    /\ NumGroundTakeoff = 1

C2_Witness ==
  /\ op = "takeoff"
  /\ pc = "done"
  /\ Len(StatusLog) = 3
  /\ StatusLog[1].phase = Ready
  /\ StatusLog[2].phase = Ready
  /\ StatusLog[3].phase = "FLYING"

\* C3 (as claimed): one call of takeoff issues ground_takeoff at most once,
\* however many polls report READY_FOR_GROUND_TAKEOFF.
C3_OneShot == op = "takeoff" => NumGroundTakeoff <= 1

\* C4: a constructor asked for pilot access whose authentication reply
\* grants another level exits the process: the authentication request is the
\* only request sent, no token is stored, and nothing can follow.
PilotRefused ==
  /\ op = "init"
  /\ args.pilot
  /\ lastOut.kind = "return"
  /\ lastOut.val.t = "dict"
  /\ Get(lastOut.val.d, "accessLevel") # "PILOT"

C4_PilotRefusedExits ==
  PilotRefused =>
    /\ pc = "exited"
    /\ access_token = PyNone
    /\ Len(sent) = 1
    /\ sent[1].ep = <<"authentication">>
    /\ ~ENABLED Next

C4_Witness ==
  /\ PilotRefused
  /\ pc = "exited"
  /\ "accessToken" \in DOMAIN lastOut.val.d
  /\ lastOut.val.d["accessToken"] = "tok1"

\* C5: without pilot access, takeoff, land and set_skill return at once,
\* having sent no request.
C5_PilotGate ==
  (op \in {"takeoff", "land", "set_skill"} /\ access_level # "PILOT") =>
    /\ ReturnedNone
    /\ sent = <<>>

C5_Witness ==
  /\ op = "land"
  /\ access_level = "PHONE"
  /\ pc = "done"
  /\ sent = <<>>

\* The latest request carries a bearer header.
HasBearer == "Authorization" \in DOMAIN lastReq.headers
\* The current call has sent a request (lastReq is its latest).
HasSent == sent # <<>>

\* C6 (as claimed): a request carries the bearer header iff a token is set,
\* with exactly the stored token; the authentication request carries none,
\* and every request after a successful authentication carries one.
C6_BearerAsClaimed ==
  /\ (HasSent /\ op = "init") => ~HasBearer
  /\ (HasSent /\ op # "init") =>
       /\ HasBearer <=> access_token # PyNone
       /\ HasBearer => lastReq.headers["Authorization"] = <<"Bearer", access_token>>
       /\ HasBearer

\* C6 (amended): a request carries the bearer header iff the stored token is
\* non-empty (neither None nor ''), with exactly the stored token; the
\* authentication request carries none, and every request made while a
\* non-empty token is stored carries one.
C6_BearerIffTruthy ==
  /\ (HasSent /\ op = "init") => ~HasBearer
  /\ (HasSent /\ op # "init") =>
       /\ HasBearer <=> Truthy(access_token)
       /\ HasBearer => lastReq.headers["Authorization"] = <<"Bearer", access_token>>
       /\ Truthy(access_token) => HasBearer

C6_Witness ==
  /\ op = "request_json"
  /\ HasSent
  /\ lastReq.method = "GET"
  /\ HasBearer
  /\ lastReq.headers["Authorization"] = <<"Bearer", "tok1">>

\* The latest response's body has no top-level `data` key.
NoDataKey ==
  \/ ~lastResp.conn
  \/ lastResp.body.t # "dict"
  \/ "data" \notin DOMAIN lastResp.body.d

\* C7: request_json raises for every response whose body has no top-level
\* `data` key, whatever the status code, and what it returns is the body's
\* `data` payload.
C7_NoDataRaises ==
  lastResp # NoResponse =>
    /\ NoDataKey => lastOut.kind = "raise"
    /\ lastOut.kind = "return" =>
         /\ ~NoDataKey
         /\ lastOut.val = lastResp.body.d["data"]

C7_Witness ==
  /\ op = "request_json"
  /\ lastResp.conn
  /\ lastResp.code = 200
  /\ lastResp.body.t = "dict"
  /\ "data" \notin DOMAIN lastResp.body.d
  /\ lastOut = Raised("RuntimeError")

\* A step that sends a request.
Sends == Len(sent') = Len(sent) + 1
\* A step in which a status call goes through.
StatusSucceeds ==
  /\ Sends
  /\ lastReq'.endpoint = <<"status">>
  /\ sent'[Len(sent')].ok

\* C8 (as claimed): once set, neither access_token nor session_id changes.
C8_SetOnce ==
  [][/\ access_token # PyNone => access_token' = access_token
     /\ session_id # PyNone => session_id' = session_id]_vars

\* C8 (amended): access_token never changes once the constructor is over;
\* session_id changes only in a status call that goes through, and every
\* such call stores the sessionId of its response, replacing the one held;
\* every request is sent with the values stored at that moment.
C8_TokenOnceSessionOverwritten ==
  [][/\ pc # "new" => access_token' = access_token
     /\ session_id' # session_id => StatusSucceeds
     /\ StatusSucceeds => session_id' = lastResp'.body.d["data"].d["sessionId"]
     /\ (Sends /\ pc # "new") =>
          /\ ("Authorization" \in DOMAIN lastReq'.headers) =>
                lastReq'.headers["Authorization"] = <<"Bearer", access_token>>
          /\ (lastReq'.endpoint = <<"status">>
              /\ "sessionId" \in DOMAIN lastReq'.body.d) =>
                lastReq'.body.d["sessionId"] = <<session_id>>]_vars

C8_Witness ==
  /\ lastReq.endpoint = <<"status">>
  /\ "sessionId" \in DOMAIN lastReq.body.d
  /\ lastReq.body.d["sessionId"] = <<"s1">>
  /\ session_id = "s2"
  /\ access_token = "tok1"

\* The requests of a land call alternate: land command, status poll.
LandShape ==
  \A i \in 1..Len(sent) :
    IF i % 2 = 1 THEN IsCommand(sent[i], "land") ELSE IsStatus(sent[i])

\* C9 (as claimed): with pilot access land sends a land command before every
\* status poll, goes on while the poll reports FLYING or no phase, and sends
\* nothing after the first poll reporting a present phase other than FLYING.
C9_LandAsClaimed ==
  (op = "land" /\ access_level = "PILOT") =>
    /\ LandShape
    /\ \A i \in 1..(Len(sent) - 1) :
         IsStatus(sent[i]) => sent[i].phase \in {"FLYING", PyNone}
    /\ (pc = "done" /\ ret.kind = "return") =>
         /\ Len(sent) >= 2
         /\ IsStatus(sent[Len(sent)])
         /\ sent[Len(sent)].phase \notin {"FLYING", PyNone}
    /\ (HasSent /\ IsStatus(sent[Len(sent)]) /\ sent[Len(sent)].ok
        /\ sent[Len(sent)].phase \in {"FLYING", PyNone}) => pc = "cmd"

\* C9 (amended): the same, with an empty phase counted as no phase: land goes
\* on while the poll reports FLYING or a phase that is absent or empty, and
\* sends nothing after the first poll reporting a non-empty phase other than
\* FLYING.
C9_LandUntilNotFlying ==
  (op = "land" /\ access_level = "PILOT") =>
    /\ LandShape
    /\ \A i \in 1..(Len(sent) - 1) :
         IsStatus(sent[i]) => sent[i].phase \in {"FLYING", PyNone, ""}
    /\ (pc = "done" /\ ret.kind = "return") =>
         /\ Len(sent) >= 2
         /\ IsStatus(sent[Len(sent)])
         /\ sent[Len(sent)].phase \notin {"FLYING", PyNone, ""}
    /\ (HasSent /\ IsStatus(sent[Len(sent)]) /\ sent[Len(sent)].ok
        /\ sent[Len(sent)].phase \in {"FLYING", PyNone, ""}) => pc = "cmd"

C9_Witness ==
  /\ op = "land"
  /\ pc = "done"
  /\ ret.kind = "return"
  /\ Len(sent) = 6
  /\ sent[2].phase = PyNone
  /\ sent[4].phase = "FLYING"
  /\ sent[6].phase = "LANDING"

\* The last request of the call is a status poll of takeoff's loop (the
\* first status call and the two fault overrides come before the loop) that
\* went through and reported FLYING.
LastPollFlying ==
  /\ Len(sent) > 3
  /\ IsStatus(sent[Len(sent)])
  /\ sent[Len(sent)].ok
  /\ sent[Len(sent)].phase = "FLYING"

\* C10: with pilot access takeoff returns normally exactly when a poll of
\* its loop reports FLYING, and it returns in the very step that receives
\* that poll; after any number of polls reporting no phase or another phase
\* it is still in its loop, which only FLYING or an exception ends.
C10_ReturnsIffFlying ==
  (op = "takeoff" /\ access_level = "PILOT") =>
    /\ (pc = "done" /\ ret.kind = "return") <=> LastPollFlying
    /\ \A i \in 4..(Len(sent) - 1) : IsStatus(sent[i]) => sent[i].phase # "FLYING"
    /\ (Len(sent) >= 3 /\ sent[Len(sent)].ok /\ ~LastPollFlying) =>
         pc \in {"poll", "cmd"}
    /\ pc = "done" => (ret.kind = "raise" <=> ~sent[Len(sent)].ok)

C10_Witness ==
  /\ op = "takeoff"
  /\ pc = "done"
  /\ ret.kind = "return"
  /\ Len(sent) = 6
  /\ sent[4].phase = "LANDING"
  /\ sent[5].phase = PyNone
  /\ sent[6].phase = "FLYING"

\* C11: a request that fails during update_pilot_status, disable_faults,
\* set_skill, takeoff or land ends the call at that request with the error
\* request_json raised: no earlier request of the call had failed, and none
\* follows.
PropagatingCallers ==
  {"update_pilot_status", "disable_faults", "set_skill", "takeoff", "land"}

C11_ErrorsPropagate ==
  (op \in PropagatingCallers /\ HasSent) =>
    /\ \A i \in 1..(Len(sent) - 1) : sent[i].ok
    /\ lastOut.kind = "raise" =>
         /\ pc = "done"
         /\ ret = lastOut
         /\ ~sent[Len(sent)].ok

\* A failed ground_takeoff command ends takeoff with the HTTP error.
C11_Witness ==
  /\ op = "takeoff"
  /\ pc = "done"
  /\ Len(sent) = 5
  /\ IsGroundTakeoff(sent[5])
  /\ ret = Raised("HTTPError")

\* C12: whatever the access level, a disable_faults call that runs to its
\* end has sent exactly two requests, one to set_fault_override/2 and one to
\* set_fault_override/3, each a POST of {override_on: true,
\* fault_active: false}; it never sends anything else.
OverrideEndpoints ==
  {<<"set_fault_override", "2">>, <<"set_fault_override", "3">>}

C12_TwoOverrides ==
  op = "disable_faults" =>
    /\ Len(sent) <= 2
    /\ \A i \in 1..Len(sent) : sent[i].ep \in OverrideEndpoints
    /\ Len(sent) = 2 => sent[1].ep # sent[2].ep
    /\ HasSent =>
         /\ lastReq.method = "POST"
         /\ lastReq.body = JDict([override_on |-> TRUE, fault_active |-> FALSE])
    /\ (pc = "done" /\ ret.kind = "return") => Len(sent) = 2

\* A client without pilot access completes both overrides.
C12_Witness ==
  /\ op = "disable_faults"
  /\ access_level = "PHONE"
  /\ ReturnedNone
  /\ Len(sent) = 2
  /\ sent[1].ep = <<"set_fault_override", "3">>

\* C13: when the authentication reply has a data object and, if pilot access
\* was asked for, its accessLevel is PILOT, the constructor returns and the
\* stored access_token and access_level are the reply's accessToken and
\* accessLevel (None for a key the reply lacks).
AuthReply == lastResp.body.d["data"].d

C13_StoresReply ==
  (/\ op = "init"
   /\ HasSent
   /\ lastOut.kind = "return"
   /\ lastOut.val.t = "dict"
   /\ args.pilot => Get(lastOut.val.d, "accessLevel") = "PILOT") =>
    /\ pc = "done"
    /\ access_token = Get(AuthReply, "accessToken")
    /\ access_level = Get(AuthReply, "accessLevel")

\* The reply {accessLevel: PILOT, accessToken: tok1} to a pilot request.
C13_Witness ==
  /\ op = "init"
  /\ pc = "done"
  /\ args.pilot
  /\ AuthReply = [accessLevel |-> "PILOT", accessToken |-> "tok1"]
  /\ access_token = "tok1"
  /\ access_level = "PILOT"

\* C14: the `data` send_custom_comms puts on the wire is the base64 text of
\* the bytes passed in (padded to a multiple of four, decoding to those
\* bytes); the reply it returns carries the decoding of the server reply's
\* `data` and the reply's other keys; against a server echoing the request's
\* `data` the returned data are the bytes passed in.
Wire == lastReq.body.d["data"]

C14_RoundTrip ==
  (op = "send_custom_comms" /\ pc = "done") =>
    /\ Len(Wire) = 4 * ((Len(args.data) + 2) \div 3)
    /\ args.data = <<77>> => Wire = <<19, 16, 64, 64>>
    /\ args.data = <<255, 77>> => Wire = <<63, 52, 52, 64>>
    /\ args.data = <<77, 77, 77>> => Wire = <<19, 20, 53, 13>>
    /\ b64decode(Wire) = [ok |-> TRUE, bytes |-> args.data]
    /\ (/\ lastOut.kind = "return"
        /\ lastOut.val.t = "dict"
        /\ "data" \in DOMAIN lastOut.val.d) =>
         LET reply == lastResp.body.d["data"].d
         IN /\ b64decode(reply["data"]).ok =>
                 /\ ret.kind = "return"
                 /\ DOMAIN ret.val.d = DOMAIN reply
                 /\ ret.val.d["data"] = b64decode(reply["data"]).bytes
                 /\ \A k \in DOMAIN reply \ {"data"} : ret.val.d[k] = reply[k]
            /\ reply["data"] = Wire =>
                 /\ ret.kind = "return"
                 /\ ret.val.d["data"] = args.data

\* Two bytes come back from an echoing server.
C14_Witness ==
  /\ op = "send_custom_comms"
  /\ pc = "done"
  /\ args.data = <<255, 77>>
  /\ lastOut.kind = "return"
  /\ lastOut.val.t = "dict"
  /\ "data" \in DOMAIN lastOut.val.d
  /\ lastOut.val.d["data"] = Wire
  /\ ret.val.d["data"] = <<255, 77>>

\* main is over: it raised, or the constructor raised or exited.
MainDied == main.at = "crashed" \/ pc \in {"failed", "exited"}

\* main has gone past line 360 with --land given: land() has been called.
LandCalled == main.land = "yes" /\ main.at = "end"

\* C15 (as claimed): whenever --land is given, main eventually calls land()
\* unless a failure ends it first.
C15_LandWheneverAsked ==
  [](main.land = "yes" => <>(LandCalled \/ MainDied))

\* C16: takeoff with pilot access sends the status request first, then the
\* two fault overrides (one per fault), then only status polls and
\* ground_takeoff commands; every ground_takeoff comes right after a status
\* poll of the loop that reported READY_FOR_GROUND_TAKEOFF.
C16_TakeoffOrder ==
  op = "takeoff" =>
    \A i \in 1..Len(sent) :
      /\ i = 1 => IsStatus(sent[i])
      /\ i \in {2, 3} => IsFault(sent[i]) /\ sent[i].ep \in OverrideEndpoints
      /\ i = 3 => sent[2].ep # sent[3].ep
      /\ i >= 4 => IsStatus(sent[i]) \/ IsGroundTakeoff(sent[i])
      /\ IsGroundTakeoff(sent[i]) =>
           /\ i >= 5
           /\ IsStatus(sent[i - 1])
           /\ sent[i - 1].ok
           /\ sent[i - 1].phase = Ready

\* Two commands, each after its own READY poll.
C16_Witness ==
  /\ op = "takeoff"
  /\ Len(sent) = 7
  /\ IsFault(sent[2])
  /\ IsFault(sent[3])
  /\ IsGroundTakeoff(sent[5])
  /\ IsGroundTakeoff(sent[7])

\* C17: a status request carries sessionId exactly when the client holds a
\* session id, and then it is the one held; a status call that goes through
\* leaves the sessionId of its response in the client, one that fails leaves
\* the held id alone, and nothing else changes it (so the id held is that of
\* the latest status response that went through, and none before the first).
IsStatusStep == Sends /\ lastReq'.endpoint = <<"status">>

C18_TokenFile ==
  /\ (op = "init" /\ Truthy(args.token_file) /\ ~args.exists) =>
       /\ pc = "exited"
       /\ sent = <<>>
       /\ lastReq = NoRequest
       /\ ~ENABLED Next
  /\ (op = "init" /\ HasSent /\ ~Truthy(args.token_file)) =>
       "credentials" \notin DOMAIN lastReq.body.d
  /\ (op = "init" /\ HasSent /\ Truthy(args.token_file)) =>
       /\ args.exists
       /\ lastReq.body.d["credentials"] = <<"k">>

\* The token file is missing and nothing was sent.
C18_Witness ==
  /\ op = "init"
  /\ args.token_file = "token.txt"
  /\ ~args.exists
  /\ pc = "exited"
  /\ sent = <<>>

\* C19: once the constructor is over no step changes access_token,
\* access_level or baseurl; session_id changes only in a status exchange of
\* update_pilot_status, takeoff or land; request_json, send_custom_comms,
\* set_skill and disable_faults change no field, whether they succeed or fail.
ReadOnlyCallers ==
  {"request_json", "send_custom_comms", "set_skill", "disable_faults"}

C19_Frame ==
  [][pc # "new" =>
       /\ UNCHANGED <<baseurl, access_token, access_level>>
       /\ session_id' # session_id =>
            /\ op' \in {"update_pilot_status", "takeoff", "land"}
            /\ IsStatusStep
       /\ op' \in ReadOnlyCallers => UNCHANGED fields]_vars

\* A failed send left the token and the session id in place.
C19_Witness ==
  /\ op = "send_custom_comms"
  /\ pc = "done"
  /\ lastOut.kind = "raise"
  /\ access_token = "tok1"
  /\ session_id = "s1"

\* C20: in takeoff with pilot access the ground_takeoff commands sent are as
\* many as the polls of the loop (the first status call left out) that
\* reported READY_FOR_GROUND_TAKEOFF, less the one command still to be sent
\* right after such a poll; a poll reporting no phase or another phase is
\* followed by a poll, not by a command, and does not end the call.
LoopPolls == {i \in 4..Len(sent) : IsStatus(sent[i]) /\ sent[i].ok}
ReadyPolls == {i \in LoopPolls : sent[i].phase = Ready}

C20_CommandPerReadyPoll ==
  op = "takeoff" =>
    /\ NumGroundTakeoff + (IF pc = "cmd" THEN 1 ELSE 0) = Cardinality(ReadyPolls)
    /\ \A i \in LoopPolls :
         sent[i].phase \notin {Ready, "FLYING"} =>
           IF i < Len(sent) THEN IsStatus(sent[i + 1]) ELSE pc = "poll"

\* A poll without a phase, a READY poll, its command, then FLYING.
C20_Witness ==
  /\ op = "takeoff"
  /\ ReturnedNone
  /\ Len(sent) = 7
  /\ sent[4].phase = PyNone
  /\ sent[5].phase = Ready
  /\ IsGroundTakeoff(sent[6])
  /\ sent[7].phase = "FLYING"
  /\ NumGroundTakeoff = 1

====
